---- MODULE Spec2Model ----
(***************************************************************************)
(* Model of rollingcv.RollingWindowSplit (src/rollingcv/splitter.py):      *)
(* the constructor's validation, the split generator (one frame per call   *)
(* of split, advanced by next), get_n_splits, __repr__ and preview.        *)
(*                                                                         *)
(* A size (window_size, horizon) is a Python int or a Python float.  It is *)
(* the record [kind, num, den]: kind "int" with value num (den = 1), or    *)
(* kind "float" for the float literal num / den, the binary64 value        *)
(* nearest to that quotient.  The float products and quotients of the code *)
(* (int(size * n_samples), int((idx / n) * width)) are computed in         *)
(* binary64, rounding to nearest, ties to even, as CPython and numpy do.   *)
(***************************************************************************)
EXTENDS Integers, Sequences, FiniteSets

VARIABLES phase, args, self, lenX, gens, lastCall

vars == <<phase, args, self, lenX, gens, lastCall>>

\* ------------------------------------------------------------------ bounds
MaxSplits == 3
MaxSize == 1
MaxGap == 1
MaxN == 5
MaxWidth == 2

\* ------------------------------------------------------------- error values
\* Every error of the module is a Python ValueError; the message tells them apart.
ErrNSplits == "n_splits must be at least 2."
ErrWindowFloat == "If float, window_size must be between 0 and 1."
ErrHorizonFloat == "If float, horizon must be between 0 and 1."
ErrNegative == "window_size, horizon, and gap must be non-negative."
ErrGeometry == "window_size and horizon must be greater than 0."
ErrNotEnough == "Not enough data to create the requested number of splits."
ErrStyle == "Invalid style. Use 'default' or 'bar'."
NoError == "none"

\* The error kinds of the specification's taxonomy.
InvalidConfig == {ErrNSplits, ErrWindowFloat, ErrHorizonFloat, ErrNegative, ErrStyle}
InvalidGeometry == {ErrGeometry}
InsufficientData == {ErrNotEnough}

\* ------------------------------------------------------------------ inputs
IntSize(x) == [kind |-> "int", num |-> x, den |-> 1]
FloatSize(x, y) == [kind |-> "float", num |-> x, den |-> y]

\* -0.5, 0.0, 0.25, 0.6 (the default window_size), 1.0, 1.5
FloatInputs ==
    {FloatSize(-1, 2), FloatSize(0, 1), FloatSize(1, 4), FloatSize(3, 5),
     FloatSize(1, 1), FloatSize(3, 2)}

\* Data and bar widths beyond the bounds, for previews at console scale.
WideLens == {10}
WideWidths == {90}

Lens == 0..MaxN \cup WideLens
Widths == 1..MaxWidth \cup WideWidths

SizeInputs == {IntSize(x) : x \in -1..MaxSize} \cup FloatInputs

ArgInputs ==
    [n_splits : 1..MaxSplits, window_size : SizeInputs, horizon : SizeInputs,
     gap : -1..MaxGap]

Styles == {"default", "bar", "fancy"}

\* the defaults of preview's train_char and test_char
train_char_default == "="
test_char_default == "-"

isfloat(s) == s.kind = "float"

\* 0 < s <= 1
InUnit(s) == 0 < s.num /\ s.num <= s.den

\* s < 0
Negative(s) == s.num < 0

\* The traversals a caller holds at one time: g1 = self.split(X), g2 = self.split(X).
GenIds == {1, 2}

\* -------------------------------------------------------------- constructor
NoSelf == [n_splits |-> 0, window_size |-> IntSize(0), horizon |-> IntSize(0), gap |-> 0]

NegativeCheck(a) == Negative(a.window_size) \/ Negative(a.horizon) \/ a.gap < 0

\* __init__: the error it raises, or NoError
init_error(a) ==
    IF a.n_splits < 2 THEN ErrNSplits
    ELSE IF isfloat(a.window_size) /\ ~InUnit(a.window_size) THEN ErrWindowFloat
    ELSE IF isfloat(a.horizon) /\ ~InUnit(a.horizon) THEN ErrHorizonFloat
    ELSE IF NegativeCheck(a) THEN ErrNegative
    ELSE NoError

\* ------------------------------------------------------------ binary64
\* A positive float is [m, exp]: the 53-bit significand m, as five limbs
\* <<1, l2, l3, l4, l5>> of 1 + 4 * 13 bits, most significant first, times
\* 2^(exp - 52).  The operands below are small ints: a < b < 2^18, w < 2^13.
Limb == 2 ^ 13

Float == [m : Seq(Nat), exp : Int]

\* the least s with a * 2^s >= b
Shifts[a \in Nat, b \in Nat] == IF a >= b THEN 0 ELSE 1 + Shifts[2 * a, b]

\* the significand m plus one unit in limb k, the carry rippling upwards
Carry[m \in Seq(Nat), k \in Nat] ==
    IF k = 1 \/ m[k] + 1 < Limb THEN [m EXCEPT ![k] = m[k] + 1]
    ELSE Carry[[m EXCEPT ![k] = 0], k - 1]

\* a significand that reached 2.0 becomes 1.0 with the next exponent
Normal[m \in Seq(Nat), exp \in Int] ==
    IF m[1] = 2 THEN [m |-> <<1, 0, 0, 0, 0>>, exp |-> exp + 1]
    ELSE [m |-> m, exp |-> exp]

\* one unit in the last place more
RoundUp[f \in Float] == Normal[Carry[f.m, 5], f.exp]

\* long division: k limbs of r / b for r < b, then the remainder
Quotient[r \in Nat, b \in Nat, k \in Nat] ==
    IF k = 0 THEN <<r>>
    ELSE <<(r * Limb) \div b>> \o Quotient[(r * Limb) % b, b, k - 1]

\* round to nearest, ties to even, on the remainder q[6] of the division by b
Nearest[q \in Seq(Nat), b \in Nat, exp \in Int] ==
    IF 2 * q[6] > b \/ (2 * q[6] = b /\ q[5] % 2 = 1)
    THEN RoundUp[[m |-> SubSeq(q, 1, 5), exp |-> exp]]
    ELSE [m |-> SubSeq(q, 1, 5), exp |-> exp]

FDivBy[a \in Nat, b \in Nat, up \in Nat] ==
    Nearest[<<1>> \o Quotient[a * 2 ^ up - b, b, 4], b, -up]

\* a / b for ints 0 < a <= b: the quotient rounded to nearest, ties to even
FDiv[a \in Nat, b \in Nat] == FDivBy[a, b, Shifts[a, b]]

\* the limbs k..1 of m * w plus carry; limb 1 keeps its overflow
Product[m \in Seq(Nat), w \in Nat, k \in Nat, carry \in Nat] ==
    IF k = 1 THEN <<m[1] * w + carry>>
    ELSE Product[m, w, k - 1, (m[k] * w + carry) \div Limb]
            \o <<(m[k] * w + carry) % Limb>>

\* p / 2^e for the product p, whose limb 1 has e + 1 bits: rounded to nearest,
\* ties to even
ShiftRight[p \in Seq(Nat), e \in Nat, cut \in Nat, exp \in Int] ==
    LET m == [k \in 1..5 |->
                IF k = 1 THEN p[1] \div cut
                ELSE (p[k - 1] % cut) * (Limb \div cut) + p[k] \div cut]
        dropped == p[5] % cut
    IN  IF e > 0 /\ (2 * dropped > cut \/ (2 * dropped = cut /\ m[5] % 2 = 1))
        THEN RoundUp[[m |-> m, exp |-> exp + e]]
        ELSE [m |-> m, exp |-> exp + e]

FMulBy[p \in Seq(Nat), e \in Nat, exp \in Int] == ShiftRight[p, e, 2 ^ e, exp]

FMulOf[p \in Seq(Nat), exp \in Int] == FMulBy[p, Shifts[1, p[1] + 1] - 1, exp]

\* f * w for an int w > 0: the product rounded to nearest, ties to even
FMul[f \in Float, w \in Nat] == FMulOf[Product[f.m, w, 5, 0], f.exp]

\* int(f) for f < 2^13
FInt[f \in Float] ==
    IF f.exp < 0 THEN 0 ELSE (f.m[1] * Limb + f.m[2]) \div 2 ^ (13 - f.exp)

\* -------------------------------------------------------------------- split
\* int(f * n) for the floats the constructor accepts, tabulated
IntOfProduct ==
    [s \in {f \in FloatInputs : InUnit(f)} |->
        [n \in Lens |-> IF n = 0 THEN 0 ELSE FInt[FMul[FDiv[s.num, s.den], n]]]]

\* int(size * n_samples) if isinstance(size, float) else size
Resolve(s, n) == IF isfloat(s) THEN IntOfProduct[s][n] ELSE s.num

\* A generator frame: the object a call of split returns.  pc is "created" (body
\* not entered), "suspended" (at the yield), "done" (returned) or "raised"; the
\* other fields are the locals of split and the folds yielded so far.
NewGen == [pc |-> "created", i |-> 0, out |-> <<>>, err |-> NoError,
           n_samples |-> 0, window_size |-> 0, horizon |-> 0, step |-> 0]

\* A name not bound to a frame yet.
NoGen == [NewGen EXCEPT !.pc = "unbound"]

NoFold == [train_idx |-> <<>>, test_idx |-> <<>>]

\* n_samples, window_size and horizon of the frame g, assigned on entry
enter(g, c, n) ==
    [g EXCEPT !.n_samples = n,
              !.window_size = Resolve(c.window_size, n),
              !.horizon = Resolve(c.horizon, n)]

total_required_no_stride(c, g) == g.window_size + c.gap + g.horizon

total_required(c, g) == g.window_size + c.gap + g.horizon + (c.n_splits - 1)

max_start(c, g) == g.n_samples - g.window_size - c.gap - g.horizon

step_ceil(c, g) == (max_start(c, g) + c.n_splits - 2) \div (c.n_splits - 1)

step_by_n_splits(c, g) == max_start(c, g) \div c.n_splits

step(c, g) == max_start(c, g) \div (c.n_splits - 1)

split_error_swapped(c, g) ==
    IF g.n_samples < total_required(c, g) THEN ErrNotEnough
    ELSE IF g.window_size <= 0 \/ g.horizon <= 0 THEN ErrGeometry
    ELSE NoError

\* the checks of split before its loop: the error raised, or NoError
split_error(c, g) ==
    IF g.window_size <= 0 \/ g.horizon <= 0 THEN ErrGeometry
    ELSE IF g.n_samples < total_required(c, g) THEN ErrNotEnough
    ELSE NoError

\* np.arange(a, b)
arange(a, b) == [j \in 1..(IF b > a THEN b - a ELSE 0) |-> a + j - 1]

fold_no_gap(c, g, i) ==
    LET start == i * g.step
        test_start == start + g.window_size
    IN  [train_idx |-> arange(start, start + g.window_size),
         test_idx |-> arange(test_start, test_start + g.horizon)]

\* the body of the loop of split for loop index i: the pair it yields
fold(c, g, i) ==
    LET start == i * g.step
        test_start == start + g.window_size + c.gap
    IN  [train_idx |-> arange(start, start + g.window_size),
         test_idx |-> arange(test_start, test_start + g.horizon)]

\* The largest loop index any frame has reached.
SharedCursor ==
    CHOOSE m \in {gens[j].i : j \in GenIds} : \A j \in GenIds : gens[j].i <= m

\* the loop of split, entered or re-entered with loop index i
loop(g, c, i) ==
    IF i < c.n_splits
    THEN [gen |-> [g EXCEPT !.pc = "suspended", !.i = i + 1,
                            !.out = Append(g.out, fold(c, g, i))],
          result |-> "yield", value |-> fold(c, g, i), err |-> NoError]
    ELSE [gen |-> [g EXCEPT !.pc = "done"],
          result |-> "StopIteration", value |-> NoFold, err |-> NoError]

\* the body of split up to its loop, on the frame g that enter has filled
start(g, c, i) ==
    IF split_error(c, g) # NoError
    THEN [gen |-> [g EXCEPT !.pc = "raised", !.err = split_error(c, g)],
          result |-> "raise", value |-> NoFold, err |-> split_error(c, g)]
    ELSE loop([g EXCEPT !.step = step(c, g)], c, i)

resume_at(g, c, n, i) ==
    IF g.pc \in {"done", "raised"}
    THEN [gen |-> g, result |-> "StopIteration", value |-> NoFold, err |-> NoError]
    ELSE IF g.pc = "created" THEN start(enter(g, c, n), c, i)
    ELSE loop(g, c, i)

resume_shared_cursor(g, c, n) ==
    resume_at(g, c, n, IF SharedCursor > g.i THEN SharedCursor ELSE g.i)

\* next(g): run the frame to its next yield, raise or return
resume(g, c, n) == resume_at(g, c, n, g.i)

RECURSIVE drain(_, _, _)
drain(g, c, n) ==
    IF g.pc \in {"done", "raised"} THEN g ELSE drain(resume(g, c, n).gen, c, n)

\* list(self.split(X)): a fresh frame run to its end
list_split(c, n) ==
    LET g == drain(NewGen, c, n) IN [err |-> g.err, splits |-> g.out]

\* ------------------------------------------------------------------ preview
Min(a, b) == IF a < b THEN a ELSE b

\* int((idx / n) * width) for an index idx of data of length n, tabulated
IntOfScaled ==
    [n \in Lens \ {0} |-> [width \in Widths |-> [idx \in 0..(n - 1) |->
        IF idx = 0 THEN 0 ELSE FInt[FMul[FDiv[idx, n], width]]]]]

Scale(idx, n, width) == IntOfScaled[n][width][idx]

first(s) == s[1]
last(s) == s[Len(s)]

\* for j in range(a, b): line[j] = ch   (cell j is line[j + 1])
paint(line, a, b, ch) ==
    [j \in 1..Len(line) |-> IF a <= j - 1 /\ j - 1 < b THEN ch ELSE line[j]]

\* min(train_end + 1, width), min(test_end + 1, width)
range_stop(cell_end, width) == Min(cell_end + 1, width)

bar_line(f, n, width, train_char, test_char) ==
    LET line == [j \in 1..width |-> " "]
        train_start == Scale(first(f.train_idx), n, width)
        train_end == Scale(last(f.train_idx), n, width)
        test_start == Scale(first(f.test_idx), n, width)
        test_end == Scale(last(f.test_idx), n, width)
        painted == paint(line, train_start, range_stop(train_end, width), train_char)
    IN  paint(painted, test_start, range_stop(test_end, width), test_char)

default_lines(f, i) ==
    << [t |-> "fold", index |-> i + 1],
       [t |-> "train", first |-> first(f.train_idx), last |-> last(f.train_idx),
        len |-> Len(f.train_idx)],
       [t |-> "test", first |-> first(f.test_idx), last |-> last(f.test_idx),
        len |-> Len(f.test_idx)],
       [t |-> "blank"] >>

RECURSIVE default_body(_, _)
default_body(splits, i) ==
    IF i >= Len(splits) THEN <<>>
    ELSE default_lines(splits[i + 1], i) \o default_body(splits, i + 1)

bar_body(splits, n, width, train_char, test_char) ==
    [k \in 1..Len(splits) |->
        [t |-> "bar", index |-> k,
         line |-> bar_line(splits[k], n, width, train_char, test_char)]]

preview_reraise(e) ==
    [raised |-> e, out |-> << [t |-> "error", e |-> e] >>]

\* the except branch of preview
preview_on_error(e) ==
    [raised |-> NoError, out |-> << [t |-> "error", e |-> e], [t |-> "hint"] >>]

\* preview: what it prints and the error it raises (NoError: it returns)
preview(c, n, width, style, train_char, test_char) ==
    LET r == list_split(c, n) IN
    IF r.err # NoError THEN preview_on_error(r.err)
    ELSE IF style = "default"
    THEN [raised |-> NoError,
          out |-> << [t |-> "header", n_splits |-> c.n_splits] >>
                  \o default_body(r.splits, 0)]
    ELSE IF style = "bar"
    THEN [raised |-> NoError,
          out |-> << [t |-> "barheader", width |-> width] >>
                  \o bar_body(r.splits, n, width, train_char, test_char)
                  \o << [t |-> "blank"] >>]
    ELSE [raised |-> ErrStyle, out |-> <<>>]

\* ---------------------------------------------------------- state machine
\* The state after RollingWindowSplit(**args) ran, for data X with len(X) in lens.
InitOf(lens) ==
    /\ args \in ArgInputs
    /\ lenX \in lens
    /\ phase = IF init_error(args) = NoError THEN "ready" ELSE "rejected"
    /\ self = IF init_error(args) = NoError THEN args ELSE NoSelf
    /\ gens = [j \in GenIds |-> NoGen]
    /\ lastCall = [op |-> "__init__", err |-> init_error(args)]

\* g_j = self.split(X): the name is bound to a new frame, whose body has not run
Split ==
    /\ phase = "ready"
    /\ \E j \in GenIds :
        /\ gens' = [gens EXCEPT ![j] = NewGen]
        /\ lastCall' = [op |-> "split", gen |-> j]
    /\ UNCHANGED <<phase, args, self, lenX>>

\* next(g_j)
GenNext ==
    /\ phase = "ready"
    /\ \E j \in GenIds :
        /\ gens[j].pc # "unbound"
        /\ LET r == resume(gens[j], self, lenX) IN
            /\ gens' = [gens EXCEPT ![j] = r.gen]
            /\ lastCall' = [op |-> "next", gen |-> j, result |-> r.result,
                            value |-> r.value, err |-> r.err]
    /\ UNCHANGED <<phase, args, self, lenX>>

GetNSplits ==
    /\ phase = "ready"
    /\ lastCall' = [op |-> "get_n_splits", ret |-> self.n_splits]
    /\ UNCHANGED <<phase, args, self, lenX, gens>>

Repr ==
    /\ phase = "ready"
    /\ lastCall' = [op |-> "__repr__", n_splits |-> self.n_splits,
                    window_size |-> self.window_size, horizon |-> self.horizon,
                    gap |-> self.gap]
    /\ UNCHANGED <<phase, args, self, lenX, gens>>

Init == InitOf(0..MaxN)

PreviewOf(widths) ==
    /\ phase = "ready"
    /\ \E width \in widths, style \in Styles :
        LET p == preview(self, lenX, width, style, train_char_default, test_char_default) IN
        lastCall' = [op |-> "preview", style |-> style, raised |-> p.raised, out |-> p.out]
    /\ UNCHANGED <<phase, args, self, lenX, gens>>

Preview == PreviewOf(1..MaxWidth)

Next == Split \/ GenNext \/ GetNSplits \/ Repr \/ Preview

Spec == Init /\ [][Next]_vars

\* The traversals alone.
NextSplit == Split \/ GenNext

SpecSplit == Init /\ [][NextSplit]_vars

\* The calls that return at once.
NextPreview == Preview \/ GetNSplits \/ Repr

SpecPreview == Init /\ [][NextPreview]_vars

\* Previews at console scale.
InitWide == InitOf(WideLens)

PreviewWide == PreviewOf(WideWidths)

NextWide == PreviewWide \/ GetNSplits

SpecWide == InitWide /\ [][NextWide]_vars

\* ------------------------------------------------------------ properties
Ready == phase = "ready"

\* The configuration and the data of the claims: k, gap, N and the resolved
\* sizes w and h: a fraction f = num / den resolves to floor(f * N), an integer
\* to itself.
K == args.n_splits
Gap == args.gap
N == lenX
Floor(s) == IF s.kind = "float" THEN (s.num * N) \div s.den ELSE s.num
W == Floor(args.window_size)
H == Floor(args.horizon)
Stride == (N - W - Gap - H) \div (K - 1)

\* the half-open range [a, b) as the sequence of its indices
HalfOpen(a, b) == [x \in 1..(b - a) |-> a + x - 1]

\* g has yielded: its split succeeded
Yielded(g) == g.out # <<>>

IsPrefix(s, t) == Len(s) <= Len(t) /\ \A x \in 1..Len(s) : s[x] = t[x]

\* the frame of a traversal of the data, on entry
Entered == enter(NewGen, self, lenX)

\* the error a traversal of the data raises, or NoError
Outcome == split_error(self, Entered)

\* fold m (1-based) of the claims: train [i*step, i*step + w), test
\* [i*step + w + gap, i*step + w + gap + h) for i = m - 1
FoldAt(m) ==
    [train_idx |-> HalfOpen((m - 1) * Stride, (m - 1) * Stride + W),
     test_idx |-> HalfOpen((m - 1) * Stride + W + Gap, (m - 1) * Stride + W + Gap + H)]

\* C1: a traversal of a successful split yields exactly k folds, in order
\* i = 0..k-1; fold i is train [i*step, i*step + w), test [i*step + w + gap,
\* i*step + w + gap + h) with step = (N - w - gap - h) // (k - 1); so train has
\* length w, test has length h, test starts gap after the train end, and
\* consecutive train starts differ by step.
C1_FoldGeometry ==
    Ready => \A j \in GenIds :
        LET out == gens[j].out IN
        /\ Len(out) <= K
        /\ gens[j].pc = "done" => Len(out) = K
        /\ gens[j].pc = "suspended" => Len(out) \in 1..K
        /\ \A m \in 1..Len(out) :
            /\ out[m] = FoldAt(m)
            /\ Len(out[m].train_idx) = W
            /\ Len(out[m].test_idx) = H
            /\ first(out[m].test_idx) = last(out[m].train_idx) + 1 + Gap
            /\ m > 1 => first(out[m].train_idx) - first(out[m - 1].train_idx) = Stride

C1_Witness ==
    /\ Ready
    /\ K = 3 /\ Gap = 1 /\ args.horizon.kind = "float"
    /\ gens[1].pc = "done" /\ Len(gens[1].out) = 3

\* C2: after a successful split, step * (k - 1) + w + gap + h <= N, and every
\* train index and every test index of every yielded fold lies in [0, N).
C2_IndicesInRange ==
    Ready => \A j \in GenIds :
        Yielded(gens[j]) =>
            /\ gens[j].step * (K - 1) + W + Gap + H <= N
            /\ \A m \in 1..Len(gens[j].out) :
                /\ \A x \in 1..Len(gens[j].out[m].train_idx) :
                      gens[j].out[m].train_idx[x] \in 0..(N - 1)
                /\ \A x \in 1..Len(gens[j].out[m].test_idx) :
                      gens[j].out[m].test_idx[x] \in 0..(N - 1)

C2_Witness ==
    /\ Ready
    /\ K = 3
    /\ gens[1].pc = "done"
    /\ last(gens[1].out[3].test_idx) = N - 1

C4_PreviewDiagnostic ==
    (Ready /\ lastCall.op = "preview" /\ Outcome # NoError) =>
        /\ lastCall.raised = NoError
        /\ lastCall.out = << [t |-> "error", e |-> Outcome],
                             [t |-> "hint"] >>

C4_Witness ==
    /\ Ready
    /\ lastCall.op = "preview"
    /\ Outcome \in InsufficientData
    /\ lastCall.raised = NoError
    /\ Len(lastCall.out) = 2

\* C5: preview called with a style other than 'default' and 'bar' fails with
\* InvalidConfig, for every configuration and every sequence length.
C5_BadStyleRaises ==
    (Ready /\ lastCall.op = "preview" /\ lastCall.style \notin {"default", "bar"}) =>
        lastCall.raised \in InvalidConfig

\* The FoldConfig data model.
ValidSize(s) ==
    IF s.kind = "float" THEN 0 < s.num /\ s.num <= s.den ELSE s.num > 0

DataModel(a) ==
    a.n_splits >= 2 /\ ValidSize(a.window_size) /\ ValidSize(a.horizon) /\ a.gap >= 0

\* C6: the constructor accepts exactly the configurations of the FoldConfig data
\* model (n_splits >= 2, window_size and horizon a positive integer or a fraction
\* in (0, 1], gap >= 0); every other one fails with InvalidConfig.
C6_AcceptedIffDataModel ==
    /\ Ready <=> DataModel(args)
    /\ ~Ready => (lastCall.op = "__init__" /\ lastCall.err \in InvalidConfig)

\* C7: whatever calls ran before or run between its steps, every traversal yields
\* the same fold sequence: each is a prefix of the sequence of the loop bodies
\* 0..k-1 and equal to it when exhausted, two traversals agree on the folds both
\* have yielded, and the stored configuration is the one constructed.
C7_Reentrant ==
    Ready =>
        /\ self = args
        /\ \A j \in GenIds :
            /\ IsPrefix(gens[j].out, [m \in 1..K |-> FoldAt(m)])
            /\ gens[j].pc = "done" => gens[j].out = [m \in 1..K |-> FoldAt(m)]
            /\ gens[j].pc = "suspended" => gens[j].i = Len(gens[j].out)
        /\ \A j1, j2 \in GenIds :
            Len(gens[j1].out) <= Len(gens[j2].out) => IsPrefix(gens[j1].out, gens[j2].out)

C7_Witness ==
    /\ Ready
    /\ K = 3
    /\ gens[1].pc = "suspended" /\ Len(gens[1].out) = 1
    /\ gens[2].pc = "done" /\ Len(gens[2].out) = 3
    /\ lastCall.op = "preview"

\* cell = floor(sample_index * width / N)
Cell(idx, width) == (idx * width) \div N

\* C8: a bar preview of a successful split prints one line per fold, in order,
\* with its 1-based index; a line has exactly width cells; the cells
\* Cell(first test) .. min(Cell(last test), width - 1) hold test_char, the other
\* cells of Cell(first train) .. min(Cell(last train), width - 1) hold
\* train_char, the rest are blank; so every line holds a test_char.
C8_BarLines ==
    (Ready /\ lastCall.op = "preview" /\ lastCall.style = "bar"
        /\ Outcome = NoError) =>
        LET out == lastCall.out
            width == out[1].width
        IN
        /\ lastCall.raised = NoError
        /\ Len(out) = K + 2
        /\ out[1].t = "barheader" /\ width >= 1
        /\ out[K + 2] = [t |-> "blank"]
        /\ \A m \in 1..K :
            LET line == out[m + 1].line
                train_first == (m - 1) * Stride
                train_last == train_first + W - 1
                test_first == train_first + W + Gap
                test_last == test_first + H - 1
                InTest(c) == Cell(test_first, width) <= c
                             /\ c <= Min(Cell(test_last, width), width - 1)
                InTrain(c) == Cell(train_first, width) <= c
                              /\ c <= Min(Cell(train_last, width), width - 1)
            IN
            /\ out[m + 1].t = "bar" /\ out[m + 1].index = m
            /\ DOMAIN line = 1..width
            /\ \A c \in 0..(width - 1) :
                line[c + 1] = IF InTest(c) THEN test_char_default
                              ELSE IF InTrain(c) THEN train_char_default
                              ELSE " "
            /\ \E c \in 0..(width - 1) : line[c + 1] = test_char_default

\* C9: after a successful split, max_start >= k - 1 and step >= 1; the train
\* starts of the folds yielded are strictly increasing and no two folds are equal.
C9_StridePositive ==
    Ready => \A j \in GenIds :
        Yielded(gens[j]) =>
            /\ max_start(self, gens[j]) >= K - 1
            /\ gens[j].step >= 1
            /\ \A m1, m2 \in 1..Len(gens[j].out) :
                m1 < m2 =>
                    /\ first(gens[j].out[m1].train_idx) < first(gens[j].out[m2].train_idx)
                    /\ gens[j].out[m1] # gens[j].out[m2]

C9_Witness ==
    /\ Ready
    /\ K = 3
    /\ gens[2].pc = "done"
    /\ max_start(self, gens[2]) = K - 1
    /\ gens[2].step = 1

\* the samples after the last test index of an exhausted traversal
Trailing(g) == N - (last(g.out[K].test_idx) + 1)

\* C10: the first fold's train range starts at 0; the samples left after the last
\* fold's test range number (N - w - gap - h) mod (k - 1), fewer than k - 1, and
\* none exactly when step * (k - 1) = max_start.
C10_TrailingSlack ==
    Ready => \A j \in GenIds :
        /\ Yielded(gens[j]) => first(gens[j].out[1].train_idx) = 0
        /\ gens[j].pc = "done" =>
            /\ Trailing(gens[j]) = (N - W - Gap - H) % (K - 1)
            /\ Trailing(gens[j]) < K - 1
            /\ Trailing(gens[j]) = 0 <=>
                  gens[j].step * (K - 1) = max_start(self, gens[j])

C10_Witness ==
    /\ Ready
    /\ K = 3
    /\ gens[1].pc = "done"
    /\ Trailing(gens[1]) = 1

====
